---- MODULE Spec2Model ----
(***************************************************************************)
(* Model of fletaio/solidity: the State Adapter (statedb.go), the balance   *)
(* transfer primitives (CanTransfer / Transfer) and the apply phase of the  *)
(* solidity.CreateContract transaction (tx_create_contract.go).             *)
(*                                                                          *)
(* The ledger context (data.Context), the account type and the virtual      *)
(* machine are external collaborators: they are modelled at the interface   *)
(* the specification gives them (sections 3, 4.4 and 6).                    *)
(***************************************************************************)
EXTENDS Integers, Sequences, FiniteSets, TLC

VARIABLES
    stack,      \* data.Context: the snapshot stack, stack[1] is the committed base
    pc,         \* position of the apply closure: "idle", "vm", "panic"
    cur,        \* the running apply: tx, Fee, coord, sn, contAddr, fee debit called,
                \* and what the VM's metering leaves it: adapter calls, nesting depth
    vmpc,       \* position of evm.Create: "none" (not called), "start", "ctor"
    steps,      \* adapter calls, Snapshot aside, made by the constructors so far
    pend,       \* the panic value being unwound (pc = "panic")
    pre,        \* the context as it was when the last apply was called
    res,        \* what the last apply returned
    lastOp,     \* the adapter operation performed by the last step
    applied,    \* the (From, Seq) pairs of the applies that succeeded
    calls,      \* how many times apply was called
    issued,     \* the open handles StateDB.Snapshot returned, each with the state
                \* it was issued in
    allowedKeyMap,  \* the allow-list: public key hash -> allowed to create contracts
    keyOps,     \* the last register/unregister operation made on each key
    vres,       \* what the last validate returned, and for which input
    wire        \* a transaction on its way through WriteTo and ReadFrom

vars == <<stack, pc, cur, vmpc, steps, pend, pre, res, lastOp, applied, calls,
          issued, allowedKeyMap, keyOps, vres, wire>>

\* the state of the validate phase
valvars == <<allowedKeyMap, keyOps, vres>>

----------------------------------------------------------------------------
(* Bounds *)

MaxCoord == 1       \* execution coordinates 1..MaxCoord
MaxSeq == 1         \* sequences a contract reaches; transactions carry 0..MaxSeq + 1
MaxApplies == 2     \* calls of apply in one run
MaxCodeLen == 2     \* deployed code of 0..MaxCodeLen bytes
MaxVMSteps == 1     \* adapter calls, Snapshot aside, the constructors make in one run
MaxAmount == 1      \* amounts a constructor transfers: 0..MaxAmount
MaxDepth == 1       \* snapshots a constructor nests
MaxCalls == 2       \* adapter calls, Snapshot aside, of the constructor examined alone
MaxNest == 2        \* snapshots the constructor examined alone nests

----------------------------------------------------------------------------
(* Values *)

HashSize == 32

Nil == "nil"
NoPanic == "no panic"

ErrInvalidSequence == "ErrInvalidSequence"
ErrExistAddress == "ErrExistAddress"
ErrExistAccountName == "ErrExistAccountName"
ErrVirtualMachinePanic == "ErrVirtualMachinePanic"
ErrNotExistAccount == "ErrNotExistAccount"
ErrExistAccount == "ErrExistAccount"
ErrInsufficientBalance == "ErrInsufficientBalance"
ErrVMExecution == "ErrExecutionReverted"
ErrInvalidSignerCount == "ErrInvalidSignerCount"
ErrNotAllowed == "ErrNotAllowed"
ErrInvalidSignature == "ErrInvalidSignature"

\* the values that implement Go's error interface
Errors ==
    {ErrInvalidSequence, ErrExistAddress, ErrExistAccountName, ErrVirtualMachinePanic,
     ErrNotExistAccount, ErrExistAccount, ErrInsufficientBalance, ErrVMExecution,
     ErrInvalidSignerCount, ErrNotAllowed, ErrInvalidSignature}

PanicReservedKeyword == "reserved keyword"

IsError(e) == e \in Errors

\* common.NewAddress(coord, nonce): an address is its coordinate and sub-index
NewAddress(coord, nonce) == <<coord, nonce>>

Coords == 1..MaxCoord
Creator == NewAddress(0, 0)       \* a funded user account of the genesis state
Library == NewAddress(0, 1)       \* a funded contract account of the genesis state
Nobody == NewAddress(0, 2)        \* an address with no account
Addrs == {Creator, Library, Nobody} \cup {NewAddress(c, 0) : c \in Coords}

KeywordCode == "__CODE__"
KeywordCodeHash == "__CODEHASH__"
KeywordCodeSize == "__CODESIZE__"
KeywordSuicide == "__SUICIDE__"
UserKey == "slot"
Keys == {KeywordCode, KeywordCodeHash, KeywordCodeSize, KeywordSuicide, UserKey}

\* the four reserved slots of the specification (section 3)
ReservedKeys == {KeywordCode, KeywordCodeHash, KeywordCodeSize, KeywordSuicide}

\* KeywordMap as init() fills it
KeywordMap == [k \in Keys |-> k \in {KeywordCode, KeywordCodeHash, KeywordSuicide}]

CodeBytes == <<170, 187, 204, 221>>
Codes == {SubSeq(CodeBytes, 1, n) : n \in 0..MaxCodeLen}

\* hash.Hash: a digest of HashSize bytes, here the length and the leading bytes
Hash(bs) ==
    [i \in 1..HashSize |->
        IF i = 1 THEN (Len(bs) + 1) % 256
        ELSE IF i - 1 <= Len(bs) THEN bs[i - 1] ELSE 0]

Word(b) == [i \in 1..HashSize |-> IF i = HashSize THEN b ELSE 0]
Words == {Word(1)}

\* binary.LittleEndian.PutUint32 / Uint32
\* (the conversion uint32(len) keeps the low four bytes, which these are)
PutUint32(n) ==
    <<n % 256, (n \div 256) % 256, (n \div 65536) % 256, (n \div 16777216) % 256>>

Uint32(bs) == bs[1] + 256 * bs[2] + 65536 * bs[3] + 16777216 * bs[4]

----------------------------------------------------------------------------
(* The ledger context (data.Context), as the specification describes it:    *)
(* every entry of the snapshot stack holds the whole state seen at that     *)
(* nesting level; the last entry is the one read and written.               *)

NoAccount == [exists |-> FALSE, name |-> "", bal |-> 0]

Top(s) == s[Len(s)]
SetTop(s, l) == [s EXCEPT ![Len(s)] = l]

\* Snapshot pushes a checkpoint; the handle returned is the new depth
CtxSnapshot(s) == Append(s, Top(s))
CtxHandle(s) == Len(s) + 1

\* Revert(n) drops everything recorded since handle n was issued; a handle
\* that was already consumed is left alone
CtxRevert(s, n) == IF Len(s) >= n /\ n >= 2 THEN SubSeq(s, 1, n - 1) ELSE s

\* Commit(n) folds everything recorded since handle n into the enclosing scope
CtxCommit(s, n) ==
    IF Len(s) >= n /\ n >= 2 THEN Append(SubSeq(s, 1, n - 2), Top(s)) ELSE s

CtxSeq(s, a) == Top(s).seq[a]
CtxAddSeq(s, a) == SetTop(s, [Top(s) EXCEPT !.seq[a] = @ + 1])
CtxIsExistAccount(s, a) == Top(s).acc[a].exists
CtxIsExistAccountName(s, n) ==
    \E a \in Addrs : Top(s).acc[a].exists /\ Top(s).acc[a].name = n
CtxAccountData(s, a, k) == Top(s).data[a][k]
CtxSetAccountData(s, a, k, v) == SetTop(s, [Top(s) EXCEPT !.data[a][k] = v])
CtxEmitEvent(s, e) == SetTop(s, [Top(s) EXCEPT !.events = Append(@, e)])

\* Context.Account: the account registered at the address, or an error
CtxAccount(s, a) ==
    IF Top(s).acc[a].exists
    THEN [err |-> Nil, acc |-> Top(s).acc[a]]
    ELSE [err |-> ErrNotExistAccount, acc |-> NoAccount]

\* Context.CreateAccount: registers the account unless the address is taken
CtxCreateAccount(s, a, n) ==
    IF CtxIsExistAccount(s, a)
    THEN [err |-> ErrExistAccount, stack |-> s]
    ELSE [err |-> Nil,
          stack |-> SetTop(s, [Top(s) EXCEPT !.acc[a] =
                                   [exists |-> TRUE, name |-> n, bal |-> 0]])]

\* Account.SubBalance: a debit below zero is reported and changes nothing
AccSubBalance(s, a, b) ==
    IF Top(s).acc[a].bal < b
    THEN [err |-> ErrInsufficientBalance, stack |-> s]
    ELSE [err |-> Nil, stack |-> SetTop(s, [Top(s) EXCEPT !.acc[a].bal = @ - b])]

\* Account.AddBalance
AccAddBalance(s, a, b) == SetTop(s, [Top(s) EXCEPT !.acc[a].bal = @ + b])

Balance(s, a) == Top(s).acc[a].bal

----------------------------------------------------------------------------
(* The State Adapter (statedb.go). Every operation yields the context it     *)
(* leaves, the value it panicked with (NoPanic if it returned) and its       *)
(* result.                                                                  *)

Returns(s, r) == [stack |-> s, panic |-> NoPanic, ret |-> r]
Panics(s, p) == [stack |-> s, panic |-> p, ret |-> FALSE]

CreateAccount(s, addr, name) ==
    LET r == CtxCreateAccount(s, addr, name)
    IN  IF r.err # Nil THEN Panics(s, r.err) ELSE Returns(r.stack, TRUE)

SubBalance(s, addr, b) ==
    IF CtxAccount(s, addr).err # Nil THEN Panics(s, CtxAccount(s, addr).err)
    ELSE LET r == AccSubBalance(s, addr, b)
         IN  IF r.err # Nil THEN Panics(s, r.err) ELSE Returns(r.stack, TRUE)

AddBalance(s, addr, b) ==
    IF CtxAccount(s, addr).err # Nil THEN Panics(s, CtxAccount(s, addr).err)
    ELSE Returns(AccAddBalance(s, addr, b), TRUE)

GetBalance(s, addr) ==
    IF CtxAccount(s, addr).err # Nil THEN Panics(s, CtxAccount(s, addr).err)
    ELSE Returns(s, CtxAccount(s, addr).acc.bal)

GetSeq(s, addr) == CtxSeq(s, addr)

AddSeq(s, addr) == Returns(CtxAddSeq(s, addr), TRUE)

\* copy(ret[:], bs) into a zeroed Hash256
GetState(s, addr, h) ==
    LET bs == CtxAccountData(s, addr, h)
    IN  [i \in 1..HashSize |-> IF i <= Len(bs) THEN bs[i] ELSE 0]

GetCodeHash(s, addr) == GetState(s, addr, KeywordCodeHash)

GetCode(s, addr) == CtxAccountData(s, addr, KeywordCode)

\* a SetCode that leaves the size slot as it was
SetCode_NoSize(s, addr, code) ==
    LET s1 == CtxSetAccountData(s, addr, KeywordCode, code)
        s2 == CtxSetAccountData(s1, addr, KeywordCodeHash, Hash(code))
    IN  Returns(s2, TRUE)

SetCode(s, addr, code) ==
    LET s1 == CtxSetAccountData(s, addr, KeywordCode, code)
        s2 == CtxSetAccountData(s1, addr, KeywordCodeHash, Hash(code))
        s3 == CtxSetAccountData(s2, addr, KeywordCodeSize, PutUint32(Len(code)))
    IN  Returns(s3, TRUE)

GetCodeSize(s, addr) ==
    LET bs == CtxAccountData(s, addr, KeywordCodeSize)
    IN  IF Len(bs) = 4 THEN Uint32(bs) ELSE 0

SetState(s, addr, h, v) ==
    IF KeywordMap[h] THEN Panics(s, PanicReservedKeyword)
    ELSE Returns(CtxSetAccountData(s, addr, h, v), TRUE)

\* a Suicide that reports success and marks nothing
Suicide_Unmarked(s, addr) == Returns(s, TRUE)

Suicide(s, addr) == Returns(CtxSetAccountData(s, addr, KeywordSuicide, <<1>>), TRUE)

HasSuicided(s, addr) ==
    LET bs == CtxAccountData(s, addr, KeywordSuicide)
    IN  Len(bs) > 0 /\ bs[1] = 1

Exist(s, addr) == Returns(s, CtxIsExistAccount(s, addr))

Empty(s, addr) ==
    IF CtxAccount(s, addr).err # Nil THEN Panics(s, CtxAccount(s, addr).err)
    ELSE Returns(s, CtxSeq(s, addr) = 0
                    /\ CtxAccount(s, addr).acc.bal = 0
                    /\ GetCodeSize(s, addr) = 0)

\* a revert that folds the mutations upward instead
RevertToSnapshot_Commits(s, n) == Returns(CtxCommit(s, n), TRUE)

RevertToSnapshot(s, n) == Returns(CtxRevert(s, n), TRUE)

CommitSnapshot(s, n) == Returns(CtxCommit(s, n), TRUE)

Snapshot(s) == Returns(CtxSnapshot(s), CtxHandle(s))

\* the LogEvent built from the vm.Log, bound to the adapter's coordinate
AddLog(s, coord, l) ==
    Returns(CtxEmitEvent(s, [Coord |-> coord, Address |-> l.Address,
                             Topics |-> l.Topics, Data |-> l.Data,
                             Removed |-> l.Removed]), TRUE)

----------------------------------------------------------------------------
(* The balance transfer primitives *)

\* a CanTransfer that wants more than the amount
CanTransfer_Strict(s, addr, amount) ==
    LET b == GetBalance(s, addr)
    IN  IF b.panic # NoPanic THEN Panics(s, b.panic)
        ELSE Returns(s, b.ret > amount)

CanTransfer(s, addr, amount) ==
    LET b == GetBalance(s, addr)
    IN  IF b.panic # NoPanic THEN Panics(s, b.panic)
        ELSE Returns(s, ~(b.ret < amount))

\* a Transfer that moves the amount the other way
Transfer_Backwards(s, sender, recipient, amount) ==
    IF amount # 0
    THEN LET d == SubBalance(s, recipient, amount)
         IN  IF d.panic # NoPanic THEN d
             ELSE AddBalance(d.stack, sender, amount)
    ELSE Returns(s, TRUE)

Transfer(s, sender, recipient, amount) ==
    IF amount # 0
    THEN LET d == SubBalance(s, sender, amount)
         IN  IF d.panic # NoPanic THEN d
             ELSE AddBalance(d.stack, recipient, amount)
    ELSE Returns(s, TRUE)

----------------------------------------------------------------------------
(* The contract-creation transaction and its apply phase *)

InitBalance == 3    \* bound: the balance the genesis accounts start with

Names == {"Foo", "Bar", "Lib"}
TxCodes == {SubSeq(CodeBytes, 1, MaxCodeLen)}
TxParams == {<<>>}
Fees == {1, InitBalance + 1}

\* CreateContract: Seq_, From_, Name, Code, Params
Tx(seq, from, name, code, params) ==
    [Seq |-> seq, From |-> from, Name |-> name, Code |-> code, Params |-> params]

\* the transactions applied: for the creator every sequence under one name,
\* every sequence that can be the next one under a second name (the name is
\* not read before the sequence check of line 76), and the first sequence
\* under the name of a genesis account; and one whose creator has no account
Txs ==
    {Tx(seq, Creator, name, code, params) :
        seq \in 0..(MaxSeq + 1), name \in {"Foo"}, code \in TxCodes, params \in TxParams}
    \cup {Tx(seq, Creator, name, code, params) :
            seq \in 1..(MaxSeq + 1), name \in {"Bar"}, code \in TxCodes,
            params \in TxParams}
    \cup {Tx(1, Creator, name, code, params) :
            name \in Names \ {"Foo", "Bar"}, code \in TxCodes, params \in TxParams}
    \cup {Tx(1, Nobody, "Foo", code, params) : code \in TxCodes, params \in TxParams}

NoTx == [Seq |-> 0, From |-> Nobody, Name |-> "", Code |-> <<>>, Params |-> <<>>]

\* a sequence check as loose as the validate phase's
SequenceMismatch_AsValidate(s, tx) == tx.Seq <= CtxSeq(s, tx.From)

\* line 76: the sequence must be exactly the creator's current sequence + 1
SequenceMismatch(s, tx) == tx.Seq # CtxSeq(s, tx.From) + 1

\* the fee debited with the sequence left as it was
ChargeCreator_NoAddSeq(s, tx, Fee) ==
    IF CtxAccount(s, tx.From).err # Nil
    THEN [stack |-> s, err |-> CtxAccount(s, tx.From).err]
    ELSE AccSubBalance(s, tx.From, Fee)

\* lines 79-87: the sequence is incremented, the creator looked up, the fee debited
ChargeCreator(s, tx, Fee) ==
    LET s2 == CtxAddSeq(s, tx.From)
    IN  IF CtxAccount(s2, tx.From).err # Nil
        THEN [stack |-> s2, err |-> CtxAccount(s2, tx.From).err]
        ELSE AccSubBalance(s2, tx.From, Fee)

\* a collision check that looks at the address only
Collision_AddressOnly(s, contAddr, name) ==
    IF CtxIsExistAccount(s, contAddr) THEN ErrExistAddress ELSE Nil

\* the two collision checks in the other order
Collision_NameFirst(s, contAddr, name) ==
    IF CtxIsExistAccountName(s, name) THEN ErrExistAccountName
    ELSE IF CtxIsExistAccount(s, contAddr) THEN ErrExistAddress
    ELSE Nil

\* lines 90-98: the address derived from the coordinate, then the name
Collision(s, contAddr, name) ==
    IF CtxIsExistAccount(s, contAddr) THEN ErrExistAddress
    ELSE IF CtxIsExistAccountName(s, name) THEN ErrExistAccountName
    ELSE Nil

\* lines 72-98 of the apply closure: from the snapshot to the collision checks.
\* Yields the context reached, whether the closure returns here, rerr, and
\* whether the fee debit of line 85 was called (charged).
ApplyBody(s, tx, Fee, coord) ==
    LET s1 == CtxSnapshot(s)
        charge == ChargeCreator(s1, tx, Fee)
        contAddr == NewAddress(coord, 0)
        hit == Collision(charge.stack, contAddr, tx.Name)
    IN  IF SequenceMismatch(s1, tx)
        THEN [stack |-> s1, returned |-> TRUE, rerr |-> ErrInvalidSequence,
              charged |-> FALSE]
        ELSE IF charge.err # Nil
        THEN [stack |-> charge.stack, returned |-> TRUE, rerr |-> charge.err,
              charged |-> CtxAccount(charge.stack, tx.From).err = Nil]
        ELSE IF hit # Nil
        THEN [stack |-> charge.stack, returned |-> TRUE, rerr |-> hit,
              charged |-> TRUE]
        ELSE [stack |-> charge.stack, returned |-> FALSE, rerr |-> Nil,
              charged |-> TRUE]

\* a deferred revert of the innermost open handle only
DeferredRevert_Innermost(s, sn) == CtxRevert(s, Len(s))

\* an apply closure that leaves its snapshot as it is
DeferredRevert_Missing(s, sn) == s

\* line 74: defer ctx.Revert(sn)
DeferredRevert(s, sn) == CtxRevert(s, sn)

\* a recover that reports every panic as the virtual-machine fault
DeferredRecover_AlwaysFault(rerr, e) ==
    IF e # NoPanic
    THEN [rerr |-> ErrVirtualMachinePanic, escaped |-> NoPanic]
    ELSE [rerr |-> rerr, escaped |-> NoPanic]

\* lines 62-70: the deferred recover; yields rerr and the panic that goes on
DeferredRecover(rerr, e) ==
    IF e # NoPanic
    THEN [rerr |-> IF IsError(e) THEN e ELSE ErrVirtualMachinePanic,
          escaped |-> NoPanic]
    ELSE [rerr |-> rerr, escaped |-> NoPanic]

\* a success path that returns without committing
CommitOnSuccess_Missing(s, sn) == s

\* line 127: ctx.Commit(sn) on the success path
CommitOnSuccess(s, sn) == CtxCommit(s, sn)

\* what became of apply's handle on the way out: s is the context at the
\* exit, c the context after the Commit of line 127 (s itself on the other
\* paths), r the context after the deferred Revert. A call consumes the
\* handle when it closes a nesting level.
HandleUse(s, c, r, sn) ==
    [open |-> Len(s) - (sn - 1),
     commits |-> IF Len(c) < Len(s) THEN 1 ELSE 0,
     reverts |-> IF Len(r) < Len(c) THEN 1 ELSE 0]

\* what the caller of apply sees: the deferred calls run last-in first-out
ApplyResult(retNil, ret, rerr, e, replay, used) ==
    [called |-> TRUE, retNil |-> retNil, ret |-> ret,
     rerr |-> DeferredRecover(rerr, e).rerr,
     escaped |-> DeferredRecover(rerr, e).escaped,
     raised |-> e, replay |-> replay, used |-> used]

NoResult ==
    [called |-> FALSE, retNil |-> TRUE, ret |-> <<>>, rerr |-> Nil,
     escaped |-> NoPanic, raised |-> NoPanic, replay |-> FALSE,
     used |-> [open |-> 0, commits |-> 0, reverts |-> 0]]

NoCall ==
    [tx |-> NoTx, Fee |-> 0, coord |-> 0, sn |-> 0, contAddr |-> Nobody,
     replay |-> FALSE, charged |-> FALSE, budget |-> 0, depth |-> 0]

\* an adapter call as the VM made it: its arguments, its result, the value it
\* panicked with, and the context it was made in (was)
Op(name, addr, key, val, to, amt, ret, panic) ==
    [name |-> name, addr |-> addr, key |-> key, val |-> val, to |-> to,
     amt |-> amt, ret |-> ret, panic |-> panic, was |-> <<>>]

NoOp == Op("", Nobody, "", <<>>, Nobody, 0, FALSE, NoPanic)

\* no transaction is being written or read
NoWire ==
    [stage |-> "none", tx |-> NoTx, bytes |-> <<>>, wrote |-> 0, werr |-> Nil,
     cut |-> 0, got |-> NoTx, read |-> 0, rerr |-> Nil]

\* common.PublicHash: the key hashes that sign transactions
PublicHashes == {"K1", "K2"}

NoValidation ==
    [called |-> FALSE, tx |-> NoTx, signers |-> <<>>, at |-> <<>>,
     keyOp |-> "none", rerr |-> Nil, panic |-> NoPanic]

GenesisAccounts ==
    [a \in Addrs |->
        IF a = Creator THEN [exists |-> TRUE, name |-> "Creator", bal |-> InitBalance]
        ELSE IF a = Library THEN [exists |-> TRUE, name |-> "Lib", bal |-> InitBalance]
        ELSE NoAccount]

Genesis ==
    [acc |-> GenesisAccounts,
     seq |-> [a \in Addrs |-> 0],
     data |-> [a \in Addrs |-> [k \in Keys |-> <<>>]],
     events |-> <<>>]

Init ==
    /\ stack = <<Genesis>>
    /\ pc = "idle"
    /\ cur = NoCall
    /\ vmpc = "none"
    /\ steps = 0
    /\ pend = NoPanic
    /\ pre = <<Genesis>>
    /\ res = NoResult
    /\ lastOp = NoOp
    /\ applied = {}
    /\ calls = 0
    /\ issued = <<>>
    /\ allowedKeyMap = [k \in PublicHashes |-> FALSE]
    /\ keyOps = [k \in PublicHashes |-> "none"]
    /\ vres = NoValidation
    /\ wire = NoWire

\* apply is called: it runs to an early return (the deferred calls included)
\* or up to evm.Create
ApplyCall(tx, Fee, coord) ==
    /\ pc = "idle"
    /\ calls < MaxApplies
    /\ calls' = calls + 1
    /\ LET b == ApplyBody(stack, tx, Fee, coord)
           sn == CtxHandle(stack)
           replay == <<tx.From, tx.Seq>> \in applied
       IN  /\ pre' = stack
           /\ lastOp' = NoOp
           /\ steps' = steps
           /\ vmpc' = IF b.returned THEN "none" ELSE "start"
           /\ pend' = NoPanic
           /\ cur' = [tx |-> tx, Fee |-> Fee, coord |-> coord, sn |-> sn,
                      contAddr |-> NewAddress(coord, 0), replay |-> replay,
                      charged |-> b.charged, budget |-> MaxVMSteps,
                      depth |-> MaxDepth]
           /\ IF b.returned
              THEN /\ stack' = DeferredRevert(b.stack, sn)
                   /\ res' = ApplyResult(TRUE, <<>>, b.rerr, NoPanic, replay,
                                         HandleUse(b.stack, b.stack,
                                                   DeferredRevert(b.stack, sn), sn))
                   /\ pc' = "idle"
              ELSE /\ stack' = b.stack
                   /\ res' = NoResult
                   /\ pc' = "vm"
    /\ issued' = <<>>
    /\ UNCHANGED applied
    /\ UNCHANGED <<valvars, wire>>

\* a panic unwinds apply: the deferred Revert, then the deferred recover
ApplyRecover ==
    /\ pc = "panic"
    /\ stack' = DeferredRevert(stack, cur.sn)
    /\ res' = ApplyResult(TRUE, <<>>, Nil, pend, cur.replay,
                          HandleUse(stack, stack, DeferredRevert(stack, cur.sn), cur.sn))
    /\ pc' = "idle"
    /\ pend' = NoPanic
    /\ lastOp' = NoOp
    /\ issued' = <<>>
    /\ UNCHANGED <<cur, vmpc, steps, pre, applied, calls>>
    /\ UNCHANGED <<valvars, wire>>

----------------------------------------------------------------------------
(* The allow-list and the validate phase *)

\* an unregister that leaves the key allowed
UnregisterAllowedKey_Keeps(m, KeyHash) == m

\* lines 23-25: allowedKeyMap[KeyHash] = true
RegisterAllowedKey(m, KeyHash) == [m EXCEPT ![KeyHash] = TRUE]

\* lines 28-30: delete(allowedKeyMap, KeyHash); a deleted key reads as false
UnregisterAllowedKey(m, KeyHash) == [m EXCEPT ![KeyHash] = FALSE]

\* the key each account is signed with; Accounter.Validate accepts the
\* signers of an account when they are its key
KeyOf(a) == IF a = Creator THEN "K1" ELSE "none"
AccounterValidate(a, signers) ==
    IF signers = <<KeyOf(a)>> THEN Nil ELSE ErrInvalidSignature

\* the value Go panics with when signers[0] is read from an empty slice
PanicIndexOutOfRange == "runtime error: index out of range [0] with length 0"

\* a validate as strict about the sequence as apply
ValidateSequenceMismatch_AsApply(s, tx) == tx.Seq # CtxSeq(s, tx.From) + 1

\* line 41: the sequence must be above the creator's current sequence
ValidateSequenceMismatch(s, tx) == tx.Seq <= CtxSeq(s, tx.From)

\* line 45: more than one signer
TooManySigners(signers) == Len(signers) > 1

\* line 48: the first signer is looked up in the allow-list
SignerNotAllowed(m, signers) == ~m[signers[1]]

ValidateReturns(err) == [rerr |-> err, panic |-> NoPanic]
ValidatePanics(p) == [rerr |-> Nil, panic |-> p]

\* lines 39-60: the validate closure, on the loader's view s of the ledger
\* and the allow-list m
Validate(s, m, tx, signers) ==
    IF ValidateSequenceMismatch(s, tx) THEN ValidateReturns(ErrInvalidSequence)
    ELSE IF TooManySigners(signers) THEN ValidateReturns(ErrInvalidSignerCount)
    ELSE IF Len(signers) = 0 THEN ValidatePanics(PanicIndexOutOfRange)
    ELSE IF SignerNotAllowed(m, signers) THEN ValidateReturns(ErrNotAllowed)
    ELSE IF CtxAccount(s, tx.From).err # Nil
    THEN ValidateReturns(CtxAccount(s, tx.From).err)
    ELSE ValidateReturns(AccounterValidate(tx.From, signers))

\* the signer sets a transaction arrives with
SignerSets == {<<>>, <<"K1">>, <<"K2">>, <<"K1", "K2">>}

RegisterCall(KeyHash) ==
    /\ pc = "idle"
    /\ allowedKeyMap' = RegisterAllowedKey(allowedKeyMap, KeyHash)
    /\ keyOps' = [keyOps EXCEPT ![KeyHash] = "register"]
    /\ UNCHANGED <<stack, pc, cur, vmpc, steps, pend, pre, res, lastOp, applied,
                   calls, issued, vres, wire>>

UnregisterCall(KeyHash) ==
    /\ pc = "idle"
    /\ allowedKeyMap' = UnregisterAllowedKey(allowedKeyMap, KeyHash)
    /\ keyOps' = [keyOps EXCEPT ![KeyHash] = "unregister"]
    /\ UNCHANGED <<stack, pc, cur, vmpc, steps, pend, pre, res, lastOp, applied,
                   calls, issued, vres, wire>>

\* validate is called on the ledger as it stands; keyOp is the last
\* operation made on the first signer's key
ValidateCall(tx, signers) ==
    /\ pc = "idle"
    /\ vres' = [called |-> TRUE, tx |-> tx, signers |-> signers, at |-> stack,
                keyOp |-> IF Len(signers) > 0 THEN keyOps[signers[1]] ELSE "none",
                rerr |-> Validate(stack, allowedKeyMap, tx, signers).rerr,
                panic |-> Validate(stack, allowedKeyMap, tx, signers).panic]
    /\ UNCHANGED <<stack, pc, cur, vmpc, steps, pend, pre, res, lastOp, applied,
                   calls, issued, allowedKeyMap, keyOps, wire>>

\* the ledger applies the transaction it has just validated
Validated == vres.called /\ vres.rerr = Nil /\ vres.panic = NoPanic /\ vres.at = stack
ApplyValidated(Fee, coord) ==
    /\ Validated
    /\ ApplyCall(vres.tx, Fee, coord)

----------------------------------------------------------------------------
(* evm.Create, as the specification describes it (section 4.4, step 7): it   *)
(* creates the account, runs the constructor, which calls the adapter, and   *)
(* persists the resulting code with SetCode. The constructor reaches the     *)
(* new contract and a contract of the genesis state, and may name an        *)
(* unregistered address in a transfer.                                      *)

VMAccounts == {cur.contAddr, Library}
VMAddrs == VMAccounts \cup {Nobody}
Amounts == 0..MaxAmount
VMLog == [Address |-> cur.contAddr, Topics |-> <<>>, Data |-> <<>>, Removed |-> FALSE]

\* the handles left open by an adapter call: Snapshot issues one in the state
\* it is called in, RevertToSnapshot(n) and CommitSnapshot(n) consume n and
\* the handles issued after it
IssuedAfter(h, op, at) ==
    IF op.name = "Snapshot" THEN Append(h, [n |-> op.amt, at |-> at])
    ELSE IF op.name \in {"RevertToSnapshot", "CommitSnapshot"}
    THEN SelectSeq(h, LAMBDA e : e.n < op.amt)
    ELSE h

\* the adapter call r made by the VM: it returns, or its panic starts to unwind
VMStep(r, op) ==
    /\ stack' = r.stack
    /\ pend' = r.panic
    /\ pc' = IF r.panic = NoPanic THEN "vm" ELSE "panic"
    /\ lastOp' = [op EXCEPT !.panic = r.panic, !.was = stack]
    /\ issued' = IssuedAfter(issued, op, Top(stack))
    /\ UNCHANGED <<cur, pre, res, applied, calls>>
    /\ UNCHANGED <<valvars, wire>>

InConstructor == pc = "vm" /\ vmpc = "ctor"
CanCall == InConstructor /\ steps < cur.budget

VMCreateAccount ==
    /\ pc = "vm" /\ vmpc = "start"
    /\ vmpc' = "ctor"
    /\ VMStep(CreateAccount(stack, cur.contAddr, cur.tx.Name),
              Op("CreateAccount", cur.contAddr, "", <<>>, Nobody, 0, TRUE, NoPanic))
    /\ steps' = steps

VMSetState(a, h, v) ==
    /\ CanCall
    /\ VMStep(SetState(stack, a, h, v), Op("SetState", a, h, v, Nobody, 0, TRUE, NoPanic))
    /\ steps' = steps + 1
    /\ UNCHANGED vmpc

VMSetCode(a, code) ==
    /\ CanCall
    /\ VMStep(SetCode(stack, a, code), Op("SetCode", a, "", code, Nobody, 0, TRUE, NoPanic))
    /\ steps' = steps + 1
    /\ UNCHANGED vmpc

VMSuicide(a) ==
    /\ CanCall
    /\ VMStep(Suicide(stack, a),
              Op("Suicide", a, "", <<>>, Nobody, 0, Suicide(stack, a).ret, NoPanic))
    /\ steps' = steps + 1
    /\ UNCHANGED vmpc

VMAddSeq(a) ==
    /\ CanCall
    /\ CtxSeq(stack, a) < MaxSeq
    /\ VMStep(AddSeq(stack, a), Op("AddSeq", a, "", <<>>, Nobody, 0, TRUE, NoPanic))
    /\ steps' = steps + 1
    /\ UNCHANGED vmpc

VMCanTransfer(a, amount) ==
    /\ CanCall
    /\ VMStep(CanTransfer(stack, a, amount),
              Op("CanTransfer", a, "", <<>>, Nobody, amount,
                 CanTransfer(stack, a, amount).ret, NoPanic))
    /\ steps' = steps + 1
    /\ UNCHANGED vmpc

VMTransfer(sender, recipient, amount) ==
    /\ CanCall
    /\ VMStep(Transfer(stack, sender, recipient, amount),
              Op("Transfer", sender, "", <<>>, recipient, amount, TRUE, NoPanic))
    /\ steps' = steps + 1
    /\ UNCHANGED vmpc

VMAddLog ==
    /\ CanCall
    /\ VMStep(AddLog(stack, cur.coord, VMLog),
              Op("AddLog", cur.contAddr, "", <<>>, Nobody, 0, TRUE, NoPanic))
    /\ steps' = steps + 1
    /\ UNCHANGED vmpc

\* the VM asks whether an address is empty
VMEmpty(a) ==
    /\ CanCall
    /\ VMStep(Empty(stack, a),
              Op("Empty", a, "", <<>>, Nobody, 0, Empty(stack, a).ret, NoPanic))
    /\ steps' = steps + 1
    /\ UNCHANGED vmpc

\* the constructor creates a contract of its own at a further address
VMCreateChild(a, name) ==
    /\ CanCall
    /\ VMStep(CreateAccount(stack, a, name),
              Op("CreateAccount", a, "", <<>>, Nobody, 0, TRUE, NoPanic))
    /\ steps' = steps + 1
    /\ UNCHANGED vmpc

VMSnapshot ==
    /\ InConstructor
    /\ Len(stack) - cur.sn < cur.depth
    /\ VMStep(Snapshot(stack),
              Op("Snapshot", Nobody, "", <<>>, Nobody, Snapshot(stack).ret, TRUE, NoPanic))
    /\ UNCHANGED steps
    /\ UNCHANGED vmpc

\* the VM reverts to a handle it holds, the innermost or an outer one
VMRevertToSnapshot(n) ==
    /\ CanCall
    /\ cur.sn < n /\ n <= Len(stack)
    /\ VMStep(RevertToSnapshot(stack, n),
              Op("RevertToSnapshot", Nobody, "", <<>>, Nobody, n, TRUE, NoPanic))
    /\ steps' = steps + 1
    /\ UNCHANGED vmpc

\* the VM commits the innermost handle it holds
VMCommitSnapshot(n) ==
    /\ CanCall
    /\ cur.sn < n /\ n = Len(stack)
    /\ VMStep(CommitSnapshot(stack, n),
              Op("CommitSnapshot", Nobody, "", <<>>, Nobody, n, TRUE, NoPanic))
    /\ steps' = steps + 1
    /\ UNCHANGED vmpc

\* a panic raised by the interpreter itself: an error value or any other value
VMPanics(e) ==
    /\ pc = "vm"
    /\ pc' = "panic"
    /\ pend' = e
    /\ lastOp' = NoOp
    /\ UNCHANGED <<stack, cur, vmpc, steps, pre, res, applied, calls, issued>>
    /\ UNCHANGED <<valvars, wire>>

\* evm.Create fails: lines 124-126, then the deferred calls
VMReturnsError(err) ==
    /\ pc = "vm"
    /\ stack' = DeferredRevert(stack, cur.sn)
    /\ res' = ApplyResult(TRUE, <<>>, err, NoPanic, cur.replay,
                          HandleUse(stack, stack, DeferredRevert(stack, cur.sn), cur.sn))
    /\ pc' = "idle"
    /\ lastOp' = NoOp
    /\ issued' = <<>>
    /\ UNCHANGED <<cur, vmpc, steps, pend, pre, applied, calls>>
    /\ UNCHANGED <<valvars, wire>>

\* evm.Create persists the code and returns it with its handles consumed:
\* lines 127-128, then the deferred calls
VMReturnsCode(code) ==
    /\ pc = "vm" /\ vmpc = "ctor"
    /\ Len(stack) = cur.sn
    /\ LET s1 == SetCode(stack, cur.contAddr, code).stack
           s2 == CommitOnSuccess(s1, cur.sn)
       IN  /\ stack' = DeferredRevert(s2, cur.sn)
           /\ res' = ApplyResult(FALSE, code, Nil, NoPanic, cur.replay,
                                 HandleUse(s1, s2, DeferredRevert(s2, cur.sn), cur.sn))
    /\ applied' = applied \cup {<<cur.tx.From, cur.tx.Seq>>}
    /\ pc' = "idle"
    /\ lastOp' = [Op("SetCode", cur.contAddr, "", code, Nobody, 0, TRUE, NoPanic)
                       EXCEPT !.was = stack]
    /\ issued' = <<>>
    /\ UNCHANGED <<cur, vmpc, steps, pend, pre, calls>>
    /\ UNCHANGED <<valvars, wire>>

\* an error value, and a value that is no error
VMPanicValues == {ErrVMExecution, "invalid jump destination"}

\* apply is called with a fee the creator can pay for every transaction and
\* coordinate, and with a fee above the genesis balance for the creator's
\* transactions that can pass the sequence check (the debit of line 85
\* precedes every use of the name and of the coordinate)
Next ==
    \/ \E tx \in Txs, coord \in Coords : ApplyCall(tx, 1, coord)
    \/ \E tx \in {t \in Txs : t.From = Creator /\ t.Name = "Foo" /\ t.Seq >= 1} :
            ApplyCall(tx, InitBalance + 1, 1)
    \/ ApplyRecover
    \/ VMCreateAccount
    \/ \E a \in VMAccounts, h \in Keys, v \in Words : VMSetState(a, h, v)
    \/ \E a \in VMAccounts, code \in Codes : VMSetCode(a, code)
    \/ \E a \in VMAccounts : VMSuicide(a)
    \/ \E a \in VMAccounts : VMAddSeq(a)
    \/ \E a \in VMAddrs, amount \in Amounts : VMCanTransfer(a, amount)
    \/ \E a \in VMAddrs, b \in VMAddrs, amount \in Amounts : VMTransfer(a, b, amount)
    \/ VMAddLog
    \/ VMSnapshot
    \/ \E n \in 2..(MaxDepth + 3) : VMRevertToSnapshot(n)
    \/ \E n \in 2..(MaxDepth + 3) : VMCommitSnapshot(n)
    \/ \E e \in VMPanicValues : VMPanics(e)
    \/ \E err \in {ErrVMExecution} : VMReturnsError(err)
    \/ \E code \in Codes : VMReturnsCode(code)

Spec == Init /\ [][Next]_vars

\* The State Adapter examined alone: the constructor of one deployment, the
\* account just created, calls the adapter
AdapterTx == Tx(1, Creator, "Foo", SubSeq(CodeBytes, 1, MaxCodeLen), <<>>)
AdapterCoord == 1
AdapterFee == 1

\* the ledger the constructor runs on: the genesis contract has code, stored
\* by an earlier SetCode
AdapterGenesis == Top(SetCode(<<Genesis>>, Library, <<CodeBytes[2]>>).stack)

AdapterStart ==
    CreateAccount(ApplyBody(<<AdapterGenesis>>, AdapterTx, AdapterFee, AdapterCoord).stack,
                  NewAddress(AdapterCoord, 0), AdapterTx.Name).stack

InitAdapter ==
    /\ stack = AdapterStart
    /\ pc = "vm"
    /\ cur = [tx |-> AdapterTx, Fee |-> AdapterFee, coord |-> AdapterCoord,
              sn |-> CtxHandle(<<AdapterGenesis>>), contAddr |-> NewAddress(AdapterCoord, 0),
              replay |-> FALSE, charged |-> TRUE, budget |-> MaxCalls,
              depth |-> MaxNest]
    /\ vmpc = "ctor"
    /\ steps = 0
    /\ pend = NoPanic
    /\ pre = <<AdapterGenesis>>
    /\ res = NoResult
    /\ lastOp = NoOp
    /\ applied = {}
    /\ calls = 1
    /\ issued = <<>>
    /\ allowedKeyMap = [k \in PublicHashes |-> FALSE]
    /\ keyOps = [k \in PublicHashes |-> "none"]
    /\ vres = NoValidation
    /\ wire = NoWire

NextAdapter ==
    \/ \E a \in VMAccounts, h \in Keys, v \in Words : VMSetState(a, h, v)
    \/ \E a \in VMAccounts, code \in Codes : VMSetCode(a, code)
    \/ \E a \in VMAccounts : VMSuicide(a)
    \/ \E a \in VMAccounts : VMAddSeq(a)
    \/ \E a \in VMAddrs, b \in VMAddrs, amount \in Amounts : VMTransfer(a, b, amount)
    \/ VMAddLog
    \/ \E a \in VMAddrs : VMEmpty(a)
    \/ \E a \in {Nobody} : VMCreateChild(a, "Child")
    \/ VMSnapshot
    \/ \E n \in 2..(MaxNest + 3) : VMRevertToSnapshot(n)
    \/ \E n \in 2..(MaxNest + 3) : VMCommitSnapshot(n)

SpecAdapter == InitAdapter /\ [][NextAdapter]_vars

\* the validate phase in front of apply: keys are registered and unregistered,
\* transactions are validated, and the one just validated is applied; the VM
\* deploys the transaction's code or fails
NextValidate ==
    \/ \E k \in PublicHashes : RegisterCall(k)
    \/ \E k \in PublicHashes : UnregisterCall(k)
    \/ \E tx \in Txs, signers \in SignerSets : ValidateCall(tx, signers)
    \/ \E Fee \in Fees, coord \in Coords : ApplyValidated(Fee, coord)
    \/ VMCreateAccount
    \/ \E e \in VMPanicValues : VMPanics(e)
    \/ ApplyRecover
    \/ \E err \in {ErrVMExecution} : VMReturnsError(err)
    \/ \E code \in {cur.tx.Code} : VMReturnsCode(code)

SpecValidate == Init /\ [][NextValidate]_vars

----------------------------------------------------------------------------
(* Serialization: WriteTo and ReadFrom. The envelope (transaction.Base), the *)
(* address codec and the util helpers are external: they are modelled as the *)
(* specification describes the wire format (section 4.5): a type tag and a   *)
(* timestamp, an 8-byte sequence, the address bytes, and a one-byte length   *)
(* in front of the name, the code and the parameters.                        *)

ErrEOF == "EOF"
ErrUnexpectedEOF == "unexpected EOF"

AddressSize == 2

\* util.WriteUint64 / ReadUint64 (the values here are below 2^31: the upper
\* four bytes are zero)
Uint64(bs) == Uint32(SubSeq(bs, 1, 4))

\* an address from its bytes: its coordinate and its sub-index
AddressFromBytes(bs) == <<bs[1], bs[2]>>

\* []byte(str) and string(bs)
Strings == Names \cup {""}
StringBytes(str) ==
    CASE str = "Foo" -> <<70, 111, 111>>
      [] str = "Bar" -> <<66, 97, 114>>
      [] str = "Lib" -> <<76, 105, 98>>
      [] OTHER -> <<>>
BytesString(bs) ==
    IF \E str \in Strings : StringBytes(str) = bs
    THEN CHOOSE str \in Strings : StringBytes(str) = bs
    ELSE "?"

\* io.ReadFull on the bytes r that are left: k bytes or a failure
ReadFull(r, k) ==
    IF Len(r) >= k
    THEN [err |-> Nil, val |-> SubSeq(r, 1, k), rest |-> SubSeq(r, k + 1, Len(r)), n |-> k]
    ELSE [err |-> IF Len(r) = 0 THEN ErrEOF ELSE ErrUnexpectedEOF,
          val |-> <<>>, rest |-> <<>>, n |-> Len(r)]

WriteUint64(v) == PutUint32(v) \o <<0, 0, 0, 0>>
ReadUint64(r) ==
    LET x == ReadFull(r, 8)
    IN  [x EXCEPT !.val = IF x.err = Nil THEN Uint64(x.val) ELSE 0]

WriteBytes(bs) == <<Len(bs) % 256>> \o bs
ReadBytes(r) ==
    LET l == ReadFull(r, 1)
    IN  IF l.err # Nil THEN l
        ELSE LET b == ReadFull(l.rest, l.val[1])
             IN  [b EXCEPT !.n = 1 + b.n]

WriteString(str) == WriteBytes(StringBytes(str))
ReadString(r) ==
    LET x == ReadBytes(r)
    IN  [x EXCEPT !.val = IF x.err = Nil THEN BytesString(x.val) ELSE ""]

AddressWriteTo(a) == <<a[1] % 256, a[2] % 256>>
AddressReadFrom(r) ==
    LET x == ReadFull(r, AddressSize)
    IN  [x EXCEPT !.val = IF x.err = Nil THEN AddressFromBytes(x.val) ELSE Nobody]

\* transaction.Base: the type tag and the timestamp
BaseWriteTo(tx) == <<tx.Type_ % 256>> \o WriteUint64(tx.Timestamp_)
BaseReadFrom(r) ==
    LET t == ReadFull(r, 1)
    IN  IF t.err # Nil THEN t
        ELSE LET ts == ReadUint64(t.rest)
             IN  IF ts.err # Nil THEN [ts EXCEPT !.n = 1 + ts.n]
                 ELSE [ts EXCEPT !.n = 1 + ts.n,
                                 !.val = [Type_ |-> t.val[1], Timestamp_ |-> ts.val]]

\* CreateContract with its envelope
WireTx(type, timestamp, tx) ==
    [Type_ |-> type, Timestamp_ |-> timestamp, Seq_ |-> tx.Seq, From_ |-> tx.From,
     Name |-> tx.Name, Code |-> tx.Code, Params |-> tx.Params]

\* lines 166-195: the fields in the order WriteTo writes them
WriteOrder == <<"Base", "Seq_", "From_", "Name", "Code", "Params">>

\* a ReadFrom that reads the parameters before the code
ReadOrder_ParamsFirst == <<"Base", "Seq_", "From_", "Name", "Params", "Code">>

\* lines 202-235: the fields in the order ReadFrom reads them
ReadOrder == <<"Base", "Seq_", "From_", "Name", "Code", "Params">>

WriteField(tx, f) ==
    CASE f = "Base" -> BaseWriteTo(tx)
      [] f = "Seq_" -> WriteUint64(tx.Seq_)
      [] f = "From_" -> AddressWriteTo(tx.From_)
      [] f = "Name" -> WriteString(tx.Name)
      [] f = "Code" -> WriteBytes(tx.Code)
      [] f = "Params" -> WriteBytes(tx.Params)

ReadField(r, f) ==
    CASE f = "Base" -> BaseReadFrom(r)
      [] f = "Seq_" -> ReadUint64(r)
      [] f = "From_" -> AddressReadFrom(r)
      [] f = "Name" -> ReadString(r)
      [] f = "Code" -> ReadBytes(r)
      [] f = "Params" -> ReadBytes(r)

\* lines 164-197: every field is written to the buffer and counted
RECURSIVE WriteFields(_, _, _, _)
WriteFields(order, i, tx, acc) ==
    IF i > Len(order) THEN acc
    ELSE WriteFields(order, i + 1, tx,
                     [bytes |-> acc.bytes \o WriteField(tx, order[i]),
                      wrote |-> acc.wrote + Len(WriteField(tx, order[i])),
                      err |-> Nil])

WriteTo(tx) == WriteFields(WriteOrder, 1, tx, [bytes |-> <<>>, wrote |-> 0, err |-> Nil])

\* lines 200-237: every field is read, stored and counted; the first failure
\* returns with what was counted before it. The receiver starts as a zero
\* CreateContract.
RECURSIVE ReadFields(_, _, _, _)
ReadFields(order, i, r, acc) ==
    IF i > Len(order) THEN acc
    ELSE LET x == ReadField(r, order[i])
         IN  IF x.err # Nil THEN [acc EXCEPT !.err = x.err]
             ELSE ReadFields(order, i + 1, x.rest,
                             [tx |-> IF order[i] = "Base"
                                     THEN [acc.tx EXCEPT !.Type_ = x.val.Type_,
                                                         !.Timestamp_ = x.val.Timestamp_]
                                     ELSE [acc.tx EXCEPT ![order[i]] = x.val],
                              read |-> acc.read + x.n, err |-> Nil])

ReadFrom(bs) == ReadFields(ReadOrder, 1, bs, [tx |-> WireTx(0, 0, NoTx), read |-> 0, err |-> Nil])

\* the transactions serialized; 66051 is a sequence with three distinct nonzero
\* bytes
WireTxs ==
    {WireTx(1, ts, Tx(seq, from, name, code, params)) :
        ts \in {0, 258}, seq \in 0..(MaxSeq + 1) \cup {66051},
        from \in {Creator, NewAddress(1, 0)},
        name \in Strings, code \in Codes, params \in {<<>>, <<1>>, <<1, 2>>}}

InitWire ==
    /\ stack = <<Genesis>>
    /\ pc = "idle"
    /\ cur = NoCall
    /\ vmpc = "none"
    /\ steps = 0
    /\ pend = NoPanic
    /\ pre = <<Genesis>>
    /\ res = NoResult
    /\ lastOp = NoOp
    /\ applied = {}
    /\ calls = 0
    /\ issued = <<>>
    /\ allowedKeyMap = [k \in PublicHashes |-> FALSE]
    /\ keyOps = [k \in PublicHashes |-> "none"]
    /\ vres = NoValidation
    /\ wire \in {[NoWire EXCEPT !.stage = "built", !.tx = tx] : tx \in WireTxs}

WriteToCall ==
    /\ wire.stage = "built"
    /\ wire' = [wire EXCEPT !.stage = "written",
                            !.bytes = WriteTo(wire.tx).bytes,
                            !.wrote = WriteTo(wire.tx).wrote,
                            !.werr = WriteTo(wire.tx).err]
    /\ UNCHANGED <<stack, pc, cur, vmpc, steps, pend, pre, res, lastOp, applied,
                   calls, issued, allowedKeyMap, keyOps, vres>>

\* ReadFrom is given the first k of the bytes written
ReadFromCall(k) ==
    /\ wire.stage = "written"
    /\ wire' = [wire EXCEPT !.stage = "read",
                            !.cut = k,
                            !.got = ReadFrom(SubSeq(wire.bytes, 1, k)).tx,
                            !.read = ReadFrom(SubSeq(wire.bytes, 1, k)).read,
                            !.rerr = ReadFrom(SubSeq(wire.bytes, 1, k)).err]
    /\ UNCHANGED <<stack, pc, cur, vmpc, steps, pend, pre, res, lastOp, applied,
                   calls, issued, allowedKeyMap, keyOps, vres>>

NextWire ==
    \/ WriteToCall
    \/ \E k \in 0..Len(wire.bytes) : ReadFromCall(k)

SpecWire == InitWire /\ [][NextWire]_vars

----------------------------------------------------------------------------
(* Claims about the apply phase *)

Returned == pc = "idle" /\ res.called
From == cur.tx.From

\* C1: whenever apply returns an error, the ledger context is exactly the
\* context apply was called with (accounts, balances, sequences, slots, names
\* and events), and the error reaches the caller instead of a panic.
C1_ErrorRestoresContext ==
    (Returned /\ res.rerr # Nil) => (stack = pre /\ res.escaped = NoPanic)

\* an apply that failed in the VM after the sequence increment, the fee debit
\* and the account creation
C1_Witness ==
    /\ Returned /\ res.rerr = ErrVMExecution /\ res.raised = NoPanic
    /\ vmpc = "ctor" /\ stack = pre

\* C2: when apply succeeds, the enclosing scope sees the creator's balance
\* lowered by the fee, its sequence raised by one, the named account at the
\* address derived from the coordinate, the persisted code and its size, and
\* apply returns that code with a nil error: the deferred revert undoes nothing.
C2_SuccessCommits ==
    (Returned /\ res.rerr = Nil) =>
        /\ ~res.retNil
        /\ Len(stack) = Len(pre)
        /\ Balance(stack, From) = Balance(pre, From) - cur.Fee
        /\ CtxSeq(stack, From) = CtxSeq(pre, From) + 1
        /\ cur.contAddr = NewAddress(cur.coord, 0)
        /\ CtxIsExistAccount(stack, cur.contAddr)
        /\ ~CtxIsExistAccount(pre, cur.contAddr)
        /\ Top(stack).acc[cur.contAddr].name = cur.tx.Name
        /\ GetCode(stack, cur.contAddr) = res.ret
        /\ GetCodeSize(stack, cur.contAddr) = Len(res.ret)

\* the scenario of the specification: code deployed under the name Foo
C2_Witness ==
    /\ Returned /\ res.rerr = Nil /\ res.ret = <<170>>
    /\ cur.tx.Name = "Foo" /\ CtxSeq(stack, Creator) = 1
    /\ Balance(stack, Creator) = InitBalance - 1
    /\ GetCodeSize(stack, cur.contAddr) = 1

\* C3: a transaction whose sequence is not the creator's sequence + 1 returns
\* InvalidSequence, changes no balance, sequence or slot, is charged no fee,
\* and never reaches the VM.
C3_InvalidSequence ==
    /\ (Returned /\ cur.tx.Seq # CtxSeq(pre, From) + 1) =>
            /\ res.rerr = ErrInvalidSequence
            /\ stack = pre
            /\ vmpc = "none"
    /\ (pc # "idle") => cur.tx.Seq = CtxSeq(pre, From) + 1

\* a transaction two ahead of the creator's sequence is refused
C3_Witness ==
    /\ Returned /\ cur.tx.Seq = CtxSeq(pre, From) + 2
    /\ res.rerr = ErrInvalidSequence /\ From = Creator

\* C4: once the sequence check and the fee debit have passed, an occupied
\* derived address returns ExistAddress, otherwise a registered name returns
\* ExistAccountName, and the creator's balance and sequence are what they were.
C4_Collision ==
    (/\ Returned
     /\ cur.tx.Seq = CtxSeq(pre, From) + 1
     /\ CtxIsExistAccount(pre, From)
     /\ Balance(pre, From) >= cur.Fee) =>
        /\ CtxIsExistAccount(pre, cur.contAddr) => res.rerr = ErrExistAddress
        /\ (/\ ~CtxIsExistAccount(pre, cur.contAddr)
            /\ CtxIsExistAccountName(pre, cur.tx.Name)) =>
                res.rerr = ErrExistAccountName
        /\ res.rerr \in {ErrExistAddress, ErrExistAccountName} =>
                /\ Balance(stack, From) = Balance(pre, From)
                /\ CtxSeq(stack, From) = CtxSeq(pre, From)
                /\ vmpc = "none"

\* the address and the name both collide: the address is reported
C4_Witness ==
    /\ Returned /\ res.rerr = ErrExistAddress
    /\ CtxIsExistAccount(pre, cur.contAddr)
    /\ CtxIsExistAccountName(pre, cur.tx.Name)
    /\ Balance(pre, From) >= cur.Fee /\ cur.Fee > 0
    /\ Balance(stack, From) = Balance(pre, From)

\* C5: a transaction (creator, sequence) that was applied successfully is
\* refused with InvalidSequence by every later apply; a successful apply raises
\* the creator's sequence by exactly one, a failed one leaves it, and no
\* sequence ever goes down.
C5_ReplayProtection ==
    Returned =>
        /\ res.replay => res.rerr = ErrInvalidSequence
        /\ res.rerr = Nil => CtxSeq(stack, From) = CtxSeq(pre, From) + 1
        /\ res.rerr # Nil => CtxSeq(stack, From) = CtxSeq(pre, From)
        /\ \A a \in Addrs : CtxSeq(stack, a) >= CtxSeq(pre, a)

\* the transaction that was applied is applied again
C5_Witness ==
    /\ Returned /\ res.replay /\ res.rerr = ErrInvalidSequence
    /\ <<From, cur.tx.Seq>> \in applied /\ CtxSeq(stack, From) = cur.tx.Seq

\* C6: a panic raised in the VM or the adapter never leaves apply: an error
\* value comes back unchanged as apply's error, any other value as the
\* virtual-machine fault, and the snapshot apply opened is reverted.
C6_PanicToError ==
    (Returned /\ res.raised # NoPanic) =>
        /\ res.escaped = NoPanic
        /\ res.rerr = IF IsError(res.raised) THEN res.raised ELSE ErrVirtualMachinePanic
        /\ stack = pre

\* the string SetState raises on a reserved key comes back as the fault
C6_Witness ==
    /\ Returned /\ res.raised = PanicReservedKeyword
    /\ res.rerr = ErrVirtualMachinePanic /\ stack = pre

----------------------------------------------------------------------------
(* Claims about the State Adapter and the transfer primitives *)

Was == Top(lastOp.was)

\* C7: SetState on any of the four reserved keys panics and changes nothing.
C7_ReservedKeysRejected ==
    (lastOp.name = "SetState" /\ lastOp.key \in ReservedKeys) =>
        /\ lastOp.panic = PanicReservedKeyword
        /\ stack = lastOp.was

\* C8: after SetCode(a, c) the code, its hash and its size read back as c,
\* hash(c) and len(c), also when a already held another code.
C8_SetCodeConsistent ==
    (lastOp.name = "SetCode") =>
        /\ lastOp.panic = NoPanic
        /\ GetCode(stack, lastOp.addr) = lastOp.val
        /\ GetCodeHash(stack, lastOp.addr) = Hash(lastOp.val)
        /\ GetCodeSize(stack, lastOp.addr) = Len(lastOp.val)

\* a SetCode that replaces a different, non-empty code
C8_Witness ==
    /\ lastOp.name = "SetCode"
    /\ Was.data[lastOp.addr][KeywordCode] # <<>>
    /\ Was.data[lastOp.addr][KeywordCode] # lastOp.val
    /\ lastOp.val # <<>>
    /\ GetCodeSize(stack, lastOp.addr) = Len(lastOp.val)

OthersKeepBalance(except) ==
    \A a \in Addrs \ except : Balance(stack, a) = Was.acc[a].bal

\* C9 as stated: every nonzero amount the sender's balance covers lowers the
\* sender's balance and raises the recipient's by exactly the amount, no other
\* balance changes, and a zero amount changes nothing.
C9_Original ==
    (lastOp.name = "Transfer") =>
        /\ (/\ lastOp.amt > 0
            /\ Was.acc[lastOp.addr].exists
            /\ Was.acc[lastOp.addr].bal >= lastOp.amt) =>
                /\ Balance(stack, lastOp.addr) = Was.acc[lastOp.addr].bal - lastOp.amt
                /\ Balance(stack, lastOp.to) = Was.acc[lastOp.to].bal + lastOp.amt
                /\ OthersKeepBalance({lastOp.addr, lastOp.to})
        /\ lastOp.amt = 0 => (lastOp.panic = NoPanic /\ stack = lastOp.was)

\* C9 amended: the same for a registered recipient other than the sender.
C9_TransferConserves ==
    (lastOp.name = "Transfer") =>
        /\ (/\ lastOp.amt > 0
            /\ Was.acc[lastOp.addr].exists
            /\ Was.acc[lastOp.addr].bal >= lastOp.amt
            /\ Was.acc[lastOp.to].exists
            /\ lastOp.to # lastOp.addr) =>
                /\ lastOp.panic = NoPanic
                /\ Balance(stack, lastOp.addr) = Was.acc[lastOp.addr].bal - lastOp.amt
                /\ Balance(stack, lastOp.to) = Was.acc[lastOp.to].bal + lastOp.amt
                /\ Balance(stack, lastOp.addr) + Balance(stack, lastOp.to)
                     = Was.acc[lastOp.addr].bal + Was.acc[lastOp.to].bal
                /\ OthersKeepBalance({lastOp.addr, lastOp.to})
        /\ lastOp.amt = 0 => (lastOp.panic = NoPanic /\ stack = lastOp.was)

\* the genesis contract pays the new contract
C9_Witness ==
    /\ lastOp.name = "Transfer" /\ lastOp.amt > 0
    /\ lastOp.addr = Library /\ lastOp.to = cur.contAddr
    /\ Balance(stack, cur.contAddr) = lastOp.amt
    /\ Balance(stack, Library) = InitBalance - lastOp.amt

\* C10: CanTransfer answers whether the balance covers the amount and changes
\* nothing; a Transfer that CanTransfer refuses fails in the debit with the
\* failure passed on, credits nobody, and no balance is ever negative.
C10_CanTransfer ==
    /\ (lastOp.name = "CanTransfer" /\ lastOp.panic = NoPanic) =>
            /\ lastOp.ret = (Was.acc[lastOp.addr].bal >= lastOp.amt)
            /\ stack = lastOp.was
    /\ (/\ lastOp.name = "Transfer"
        /\ Was.acc[lastOp.addr].exists
        /\ ~CanTransfer(lastOp.was, lastOp.addr, lastOp.amt).ret) =>
            /\ lastOp.panic = ErrInsufficientBalance
            /\ pc = "panic" /\ pend = ErrInsufficientBalance
            /\ stack = lastOp.was
    /\ \A a \in Addrs : Balance(stack, a) >= 0

\* the new contract, holding nothing, tries to pay one unit
C10_Witness ==
    /\ lastOp.name = "Transfer" /\ lastOp.addr = cur.contAddr
    /\ lastOp.to = Library /\ lastOp.amt = 1
    /\ Was.acc[cur.contAddr].exists /\ Was.acc[cur.contAddr].bal = 0
    /\ pc = "panic" /\ pend = ErrInsufficientBalance

----------------------------------------------------------------------------
(* Claims about the snapshot apply opens and about the accounts it creates *)

\* C16: on every exit of apply (early return, VM error, panic, success) the
\* handle apply opened was consumed exactly once, by the commit on success and
\* by the deferred revert otherwise, and the nesting depth of the context is
\* what it was when apply was called.
C16_HandleConsumedOnce ==
    Returned =>
        /\ res.used.commits + res.used.reverts = 1
        /\ res.used.commits = 1 <=> res.rerr = Nil
        /\ Len(stack) = Len(pre)

\* a panic unwinds apply while a snapshot of the constructor is still open
C16_Witness ==
    /\ Returned /\ res.raised # NoPanic
    /\ res.used.open = 2 /\ res.used.reverts = 1 /\ res.used.commits = 0
    /\ Len(stack) = Len(pre)

\* C18: no two accounts share a name; a successful apply creates exactly the
\* account at sub-index 0 of its coordinate, which did not exist; an apply
\* with a coordinate that already produced a contract fails and creates or
\* overwrites no account.
C18_UniqueContracts ==
    /\ \A a, b \in Addrs :
            (CtxIsExistAccount(stack, a) /\ CtxIsExistAccount(stack, b) /\ a # b) =>
                Top(stack).acc[a].name # Top(stack).acc[b].name
    /\ (Returned /\ res.rerr = Nil) =>
            /\ cur.contAddr = NewAddress(cur.coord, 0)
            /\ ~CtxIsExistAccount(pre, cur.contAddr)
            /\ \A a \in Addrs \ {cur.contAddr} :
                    Top(stack).acc[a].exists = Top(pre).acc[a].exists
                    /\ Top(stack).acc[a].name = Top(pre).acc[a].name
    /\ (Returned /\ CtxIsExistAccount(pre, NewAddress(cur.coord, 0))) =>
            /\ res.rerr # Nil
            /\ Top(stack).acc = Top(pre).acc
            /\ Top(stack).data = Top(pre).data

\* a second deployment at the coordinate of the first, under another name
C18_Witness ==
    /\ Returned /\ res.rerr = ErrExistAddress
    /\ CtxIsExistAccount(pre, cur.contAddr)
    /\ Top(pre).acc[cur.contAddr].name = "Foo" /\ cur.tx.Name = "Bar"
    /\ Top(stack).acc = Top(pre).acc

----------------------------------------------------------------------------
(* Claims about the validate phase *)

PastSequenceCheck == vres.called /\ vres.tx.Seq > CtxSeq(vres.at, vres.tx.From)

\* C11: past the sequence check, every signer set whose size is not 1, the
\* empty one included, makes validate return InvalidSignerCount, and only a
\* transaction with exactly one signer is accepted.
C11_SignerCount ==
    /\ (PastSequenceCheck /\ Len(vres.signers) # 1) =>
            (vres.panic = NoPanic /\ vres.rerr = ErrInvalidSignerCount)
    /\ (vres.called /\ vres.panic = NoPanic /\ vres.rerr = Nil) =>
            Len(vres.signers) = 1

\* C12: a transaction past the sequence check whose one signer's key was never
\* registered, or was unregistered after its last registration, fails
\* validation with NotAllowed; a key is allowed iff the last operation on it
\* was RegisterAllowedKey; an accepted transaction is signed by such a key.
C12_NotAllowed ==
    /\ (/\ PastSequenceCheck
        /\ Len(vres.signers) = 1
        /\ vres.keyOp # "register") =>
            (vres.panic = NoPanic /\ vres.rerr = ErrNotAllowed)
    /\ \A k \in PublicHashes : allowedKeyMap[k] <=> (keyOps[k] = "register")
    /\ (vres.called /\ vres.panic = NoPanic /\ vres.rerr = Nil) =>
            vres.keyOp = "register"
    /\ (pc # "idle") => vres.keyOp = "register"

\* the creator's key was registered and unregistered again, another key is
\* still allowed
C12_Witness ==
    /\ PastSequenceCheck /\ vres.signers = <<"K1">>
    /\ vres.keyOp = "unregister" /\ vres.rerr = ErrNotAllowed
    /\ allowedKeyMap["K2"] /\ ~allowedKeyMap["K1"]
    /\ vres.tx.From = Creator

\* a transaction two ahead of the creator's sequence, signed by the creator's
\* allowed key
TwoAhead ==
    /\ vres.called
    /\ vres.tx.Seq = CtxSeq(vres.at, vres.tx.From) + 2
    /\ CtxIsExistAccount(vres.at, vres.tx.From)
    /\ vres.signers = <<KeyOf(vres.tx.From)>>
    /\ vres.keyOp = "register"

AppliedAsValidated == Returned /\ cur.tx = vres.tx /\ pre = vres.at

\* C17 as stated: a transaction two ahead passes validation and fails at apply
\* with the sequence error after the fee debit was attempted and reverted,
\* the creator's balance and sequence left as they were.
C17_Original ==
    /\ TwoAhead => (vres.panic = NoPanic /\ vres.rerr = Nil)
    /\ (TwoAhead /\ AppliedAsValidated) =>
            /\ res.rerr = ErrInvalidSequence
            /\ cur.charged
            /\ Balance(stack, From) = Balance(pre, From)
            /\ CtxSeq(stack, From) = CtxSeq(pre, From)

\* C17 amended: it passes validation and fails at apply with the sequence
\* error before the sequence increment and the fee debit are called: only the
\* opening snapshot is taken and reverted, and the context is left as it was.
C17_Asymmetry ==
    /\ TwoAhead => (vres.panic = NoPanic /\ vres.rerr = Nil)
    /\ (TwoAhead /\ AppliedAsValidated) =>
            /\ res.rerr = ErrInvalidSequence
            /\ ~cur.charged
            /\ vmpc = "none"
            /\ Balance(stack, From) = Balance(pre, From)
            /\ CtxSeq(stack, From) = CtxSeq(pre, From)
            /\ stack = pre

\* the transaction was validated and then applied with a fee the creator
\* could pay
C17_Witness ==
    /\ TwoAhead /\ AppliedAsValidated
    /\ vres.rerr = Nil /\ res.rerr = ErrInvalidSequence
    /\ cur.Fee > 0 /\ cur.Fee <= Balance(pre, From)
    /\ Balance(stack, From) = Balance(pre, From)

----------------------------------------------------------------------------
(* Claims about snapshots, code slots, emptiness and self-destruct marks *)

\* the state in which the open handle n was issued
IssuedAt(h, n) == (CHOOSE e \in {h[i] : i \in DOMAIN h} : e.n = n).at
IsOpen(h, n) == \E i \in DOMAIN h : h[i].n = n

\* C13: Snapshot changes nothing and returns a handle above every open one;
\* whatever was written and whichever handles were issued since,
\* RevertToSnapshot(n) leaves exactly the state n was issued in and closes n
\* and the handles after it; CommitSnapshot(n) leaves the state as it is, seen
\* from the scope that encloses n.
C13_SnapshotLaw ==
    [][/\ lastOp'.name = "Snapshot" =>
            /\ Top(stack') = Top(stack)
            /\ SubSeq(stack', 1, Len(stack)) = stack
            /\ \A i \in DOMAIN issued : issued[i].n < lastOp'.amt
            /\ cur.sn < lastOp'.amt
            /\ IsOpen(issued', lastOp'.amt)
       /\ (lastOp'.name = "RevertToSnapshot" /\ IsOpen(issued, lastOp'.amt)) =>
            /\ Top(stack') = IssuedAt(issued, lastOp'.amt)
            /\ Len(stack') = lastOp'.amt - 1
            /\ stack' = SubSeq(stack, 1, Len(stack'))
            /\ \A i \in DOMAIN issued' : issued'[i].n < lastOp'.amt
       /\ (lastOp'.name = "CommitSnapshot" /\ IsOpen(issued, lastOp'.amt)) =>
            /\ Top(stack') = Top(stack)
            /\ Len(stack') = lastOp'.amt - 1
            /\ SubSeq(stack', 1, Len(stack') - 1) = SubSeq(stack, 1, Len(stack') - 1)
      ]_vars

\* a revert to an outer handle while an inner one is open undoes what was
\* written under the inner one
C13_Witness ==
    /\ lastOp.name = "RevertToSnapshot"
    /\ Len(lastOp.was) - Len(stack) = 2
    /\ Top(stack) # Top(lastOp.was)
    /\ Top(lastOp.was) # lastOp.was[Len(lastOp.was) - 1]
    /\ Top(stack) = lastOp.was[Len(stack)]

CodeSlots == {KeywordCode, KeywordCodeHash, KeywordCodeSize}

\* C15: for every account the size read back is the length of the code and
\* the hash read back is the hash of the code whenever code is set; and no
\* adapter operation other than SetCode (and a revert that undoes one)
\* changes any of the three code slots.
C15_CodeSlotsConsistent ==
    /\ \A a \in Addrs :
            /\ GetCodeSize(stack, a) = Len(GetCode(stack, a))
            /\ GetCode(stack, a) # <<>> =>
                    GetCodeHash(stack, a) = Hash(GetCode(stack, a))
    /\ (lastOp.name \notin {"", "SetCode", "RevertToSnapshot"}) =>
            \A a \in Addrs, k \in CodeSlots :
                CtxAccountData(stack, a, k) = CtxAccountData(lastOp.was, a, k)

\* C19: Empty(a) returns, for registered and unregistered addresses alike,
\* whether the sequence, the balance and the code size of a are all zero.
C19_Empty ==
    (lastOp.name = "Empty") =>
        /\ lastOp.panic = NoPanic
        /\ lastOp.ret = (/\ CtxSeq(stack, lastOp.addr) = 0
                         /\ Balance(stack, lastOp.addr) = 0
                         /\ GetCodeSize(stack, lastOp.addr) = 0)

\* C20: Suicide(a) returns true and marks a; a mark appears only by
\* Suicide(a); a mark stays under every adapter operation but
\* RevertToSnapshot, which leaves a marked exactly if a was marked when the
\* handle was issued.
C20_SuicideSticky ==
    [][/\ lastOp'.name = "Suicide" =>
            /\ lastOp'.ret = TRUE /\ lastOp'.panic = NoPanic
            /\ HasSuicided(stack', lastOp'.addr)
       /\ \A a \in Addrs :
            /\ (HasSuicided(stack, a) /\ lastOp'.name # "RevertToSnapshot") =>
                    HasSuicided(stack', a)
            /\ (~HasSuicided(stack, a) /\ HasSuicided(stack', a)) =>
                    (lastOp'.name = "Suicide" /\ lastOp'.addr = a)
            /\ (lastOp'.name = "RevertToSnapshot" /\ IsOpen(issued, lastOp'.amt)) =>
                    (HasSuicided(stack', a) <=>
                        HasSuicided(<<IssuedAt(issued, lastOp'.amt)>>, a))
      ]_vars

\* a revert to a handle issued before the Suicide call takes the mark away
C20_Witness ==
    /\ lastOp.name = "RevertToSnapshot"
    /\ HasSuicided(lastOp.was, cur.contAddr)
    /\ ~HasSuicided(stack, cur.contAddr)
    /\ \A a \in Addrs : ~HasSuicided(<<AdapterGenesis>>, a)

----------------------------------------------------------------------------
(* Claims about serialization *)

\* the bytes of a written transaction from position from on, n of them
Slice(from, n) == SubSeq(wire.bytes, from, from + n - 1)

\* C14: ReadFrom on the bytes WriteTo produced yields the same envelope,
\* sequence, creator, name, code and parameters and counts the same number of
\* bytes; the bytes are the envelope, the 8-byte sequence, the address, the
\* name, the code and the parameters in that order; ReadFrom on any strict
\* prefix of them fails.
C14_WireRoundTrip ==
    /\ (wire.stage \in {"written", "read"}) =>
            /\ wire.werr = Nil /\ wire.wrote = Len(wire.bytes)
            /\ LET e == 9
                   a == e + 8 + AddressSize
                   nl == wire.bytes[a + 1]
                   cl == wire.bytes[a + 1 + nl + 1]
               IN  /\ Uint64(Slice(2, 8)) = wire.tx.Timestamp_
                   /\ Uint64(Slice(e + 1, 8)) = wire.tx.Seq_
                   /\ AddressFromBytes(Slice(e + 9, AddressSize)) = wire.tx.From_
                   /\ Slice(a + 2, nl) = StringBytes(wire.tx.Name)
                   /\ Slice(a + 1 + nl + 2, cl) = wire.tx.Code
                   /\ Slice(a + 1 + nl + 1 + cl + 2, wire.bytes[a + 1 + nl + 1 + cl + 1])
                        = wire.tx.Params
    /\ (wire.stage = "read" /\ wire.cut = Len(wire.bytes)) =>
            /\ wire.rerr = Nil
            /\ wire.got = wire.tx
            /\ wire.read = wire.wrote
    /\ (wire.stage = "read" /\ wire.cut < Len(wire.bytes)) =>
            /\ wire.rerr \in {ErrEOF, ErrUnexpectedEOF}
            /\ wire.read <= wire.cut

\* a transaction with a name, a code and different parameters comes back
C14_Witness ==
    /\ wire.stage = "read" /\ wire.cut = Len(wire.bytes) /\ wire.rerr = Nil
    /\ wire.tx.Name = "Foo" /\ wire.tx.Seq_ = 66051
    /\ Len(wire.tx.Code) = 2 /\ Len(wire.tx.Params) = 1
    /\ wire.got.Code = wire.tx.Code /\ wire.got.Params = wire.tx.Params
    /\ wire.read = 9 + 8 + AddressSize + 4 + 3 + 2

====
